---- MODULE Spec2Model ----
(***************************************************************************)
(* Bakery weather library (src/bakery_weather.py): the scalar coercers     *)
(* parse_int / parse_float / parse_boolean, the report builder             *)
(* create_report and the entry point get_weather.                          *)
(*                                                                         *)
(* Python values are records [t, n, s]: t is the type tag, n the numeric   *)
(* payload (floats are fixed-point, in units of 1/Scale), s the characters *)
(* of a text.  A mapping is a record over its possible keys in which a     *)
(* missing key holds Absent.                                               *)
(***************************************************************************)
EXTENDS Integers, Sequences, FiniteSets, TLC

VARIABLES
    value, default, out,          \* a coercer call: its arguments and outcome
    raw, latitude, longitude,     \* create_report's arguments
    result,                       \* outcome of create_report / get_weather
    pc,                           \* position inside get_weather
    cache,                        \* requests_cache store: url -> body index
    response,                     \* the Response object r of get_weather
    calls, getCount, createCount  \* history: calls made, GETs / builds in this call

vars == <<value, default, out, raw, latitude, longitude, result, pc, cache,
          response, calls, getCount, createCount>>

-----------------------------------------------------------------------------
(* Bounds *)

\* longest parallel sequence of a payload
MaxLen == 2

\* get_weather invocations in one behaviour
MaxCalls == 2

\* fixed-point resolution of the modelled floats (four decimal places)
Scale == 10 * 1000

-----------------------------------------------------------------------------
(* Python values *)

Val(t, n, s) == [t |-> t, n |-> n, s |-> s]

Absent   == Val("absent", 0, <<>>)       \* key not in the mapping
Null     == Val("null", 0, <<>>)         \* None
BoolVal(b)  == Val("bool", IF b THEN 1 ELSE 0, <<>>)
IntVal(n)   == Val("int", n, <<>>)
FloatVal(n) == Val("float", n, <<>>)        \* n / Scale
InfVal(sgn) == Val("inf", sgn, <<>>)        \* float('inf'), float('-inf')
NaN      == Val("nan", 0, <<>>)
StrVal(s)   == Val("str", 0, s)             \* s: sequence of characters
ListVal(n)  == Val("list", n, <<>>)         \* a list of n items (non-scalar)
DictVal(n)  == Val("dict", n, <<>>)         \* a mapping of n items (non-scalar)

\* outcome of an expression: a value, or an exception that propagates
Ret(v)   == [exc |-> "none", v |-> v]
Raise(e) == [exc |-> e, v |-> Null]

-----------------------------------------------------------------------------
(* Text: the grammar of int(str) and float(str) *)

Digits == <<"0", "1", "2", "3", "4", "5", "6", "7", "8", "9">>

IsDigit(c) == \E i \in 1..10 : Digits[i] = c

DigitVal(c) == (CHOOSE i \in 1..10 : Digits[i] = c) - 1

IsSpace(c) == c \in {" ", "\n", "\t"}

RECURSIVE LStrip(_)
LStrip(s) == IF s # <<>> /\ IsSpace(Head(s)) THEN LStrip(Tail(s)) ELSE s

RECURSIVE RStrip(_)
RStrip(s) ==
    IF s # <<>> /\ IsSpace(s[Len(s)]) THEN RStrip(SubSeq(s, 1, Len(s) - 1)) ELSE s

Strip(s) == RStrip(LStrip(s))

HasSign(s) == s # <<>> /\ Head(s) \in {"+", "-"}

Unsigned(s) == IF HasSign(s) THEN Tail(s) ELSE s

SignOf(s) == IF s # <<>> /\ Head(s) = "-" THEN -1 ELSE 1

\* digits, with single underscores allowed between them
IsDigitRun(s) ==
    /\ s # <<>>
    /\ IsDigit(s[1]) /\ IsDigit(s[Len(s)])
    /\ \A i \in 1..Len(s) : IsDigit(s[i]) \/ s[i] = "_"
    /\ \A i \in 1..(Len(s) - 1) : ~(s[i] = "_" /\ s[i + 1] = "_")

RECURSIVE DigitRunValue(_)
DigitRunValue(s) ==
    IF s = <<>> THEN 0
    ELSE IF s[Len(s)] = "_" THEN DigitRunValue(SubSeq(s, 1, Len(s) - 1))
    ELSE 10 * DigitRunValue(SubSeq(s, 1, Len(s) - 1)) + DigitVal(s[Len(s)])

IsIntText(s) == IsDigitRun(Unsigned(Strip(s)))

IntTextValue(s) == SignOf(Strip(s)) * DigitRunValue(Unsigned(Strip(s)))

Lower(c) ==
    CASE c = "I" -> "i" [] c = "N" -> "n" [] c = "F" -> "f" [] c = "A" -> "a"
      [] c = "T" -> "t" [] c = "Y" -> "y" [] OTHER -> c

LowerText(s) == [i \in 1..Len(s) |-> Lower(s[i])]

DotAt(s) == IF \E i \in 1..Len(s) : s[i] = "."
            THEN CHOOSE i \in 1..Len(s) : s[i] = "." /\ \A j \in 1..(i - 1) : s[j] # "."
            ELSE 0

WholePart(s) == IF DotAt(s) = 0 THEN s ELSE SubSeq(s, 1, DotAt(s) - 1)

FracPart(s) == IF DotAt(s) = 0 THEN <<>> ELSE SubSeq(s, DotAt(s) + 1, Len(s))

\* decimal literal without exponent: digits [. [digits]] or . digits
IsDecimalText(b) ==
    /\ WholePart(b) = <<>> \/ IsDigitRun(WholePart(b))
    /\ FracPart(b) = <<>> \/ IsDigitRun(FracPart(b))
    /\ WholePart(b) # <<>> \/ FracPart(b) # <<>>

RECURSIVE FracValue(_, _)
FracValue(s, unit) ==
    IF s = <<>> \/ unit = 0 THEN 0
    ELSE IF Head(s) = "_" THEN FracValue(Tail(s), unit)
    ELSE DigitVal(Head(s)) * unit + FracValue(Tail(s), unit \div 10)

DecimalValue(b) == DigitRunValue(WholePart(b)) * Scale + FracValue(FracPart(b), Scale \div 10)

IsInfText(b) == LowerText(b) \in {<<"i", "n", "f">>, <<"i", "n", "f", "i", "n", "i", "t", "y">>}

IsNanText(b) == LowerText(b) = <<"n", "a", "n">>

-----------------------------------------------------------------------------
(* The builtin conversions int(), float(), bool() *)

TruncDiv(n, d) == IF n >= 0 THEN n \div d ELSE -((-n) \div d)

PyInt(v) ==
    CASE v.t = "int"   -> Ret(v)
      [] v.t = "bool"  -> Ret(IntVal(v.n))
      [] v.t = "float" -> Ret(IntVal(TruncDiv(v.n, Scale)))
      [] v.t = "inf"   -> Raise("OverflowError")
      [] v.t = "nan"   -> Raise("ValueError")
      [] v.t = "str"   -> IF IsIntText(v.s) THEN Ret(IntVal(IntTextValue(v.s)))
                          ELSE Raise("ValueError")
      [] OTHER         -> Raise("TypeError")

PyFloatText(s) ==
    LET b == Unsigned(Strip(s))
        sgn == SignOf(Strip(s))
    IN  IF IsInfText(b) THEN Ret(InfVal(sgn))
        ELSE IF IsNanText(b) THEN Ret(NaN)
        ELSE IF IsDecimalText(b) THEN Ret(FloatVal(sgn * DecimalValue(b)))
        ELSE Raise("ValueError")

PyFloat(v) ==
    CASE v.t = "int"   -> Ret(FloatVal(v.n * Scale))
      [] v.t = "bool"  -> Ret(FloatVal(v.n * Scale))
      [] v.t \in {"float", "inf", "nan"} -> Ret(v)
      [] v.t = "str"   -> PyFloatText(v.s)
      [] OTHER         -> Raise("TypeError")

\* truth value testing: defined for every object of the payload
PyBool(v) ==
    CASE v.t \in {"null", "absent"} -> Ret(BoolVal(FALSE))
      [] v.t \in {"inf", "nan"}     -> Ret(BoolVal(TRUE))
      [] v.t = "str"                -> Ret(BoolVal(v.s # <<>>))
      [] OTHER                      -> Ret(BoolVal(v.n # 0))

-----------------------------------------------------------------------------
(* The coercers *)

\* fault: the fallback is the literal 0, not the default passed in
parse_int_IgnoresDefault(v, d) ==
    IF v.t = "null" THEN Ret(IntVal(0))
    ELSE IF PyInt(v).exc = "ValueError" THEN Ret(IntVal(0)) ELSE PyInt(v)

parse_int(v, d) ==
    IF v.t = "null" THEN Ret(d)
    ELSE IF PyInt(v).exc = "ValueError" THEN Ret(d) ELSE PyInt(v)

parse_float(v, d) ==
    IF v.t = "null" THEN Ret(d)
    ELSE IF PyFloat(v).exc = "ValueError" THEN Ret(d) ELSE PyFloat(v)

parse_boolean(v, d) ==
    IF v.t = "null" THEN Ret(d)
    ELSE IF PyBool(v).exc = "ValueError" THEN Ret(d) ELSE PyBool(v)

-----------------------------------------------------------------------------
(* Formatting of the coordinates in the error message: str() of a number *)

RECURSIVE FormatNat(_)
FormatNat(n) ==
    IF n < 10 THEN <<Digits[n + 1]>>
    ELSE FormatNat(n \div 10) \o <<Digits[(n % 10) + 1]>>

RECURSIVE FracDigits(_, _)
FracDigits(f, unit) ==
    IF unit = 0 THEN <<>>
    ELSE <<Digits[(f \div unit) + 1]>> \o FracDigits(f % unit, unit \div 10)

\* repr drops trailing zeros of the fraction but keeps one digit
RECURSIVE DropZeros(_)
DropZeros(s) ==
    IF Len(s) > 1 /\ s[Len(s)] = "0" THEN DropZeros(SubSeq(s, 1, Len(s) - 1)) ELSE s

Abs(n) == IF n < 0 THEN -n ELSE n

Format(v) ==
    CASE v.t = "int"   -> (IF v.n < 0 THEN <<"-">> ELSE <<>>) \o FormatNat(Abs(v.n))
      [] v.t = "float" -> (IF v.n < 0 THEN <<"-">> ELSE <<>>)
                          \o FormatNat(Abs(v.n) \div Scale) \o <<".">>
                          \o DropZeros(FracDigits(Abs(v.n) % Scale, Scale \div 10))
      [] v.t = "null"  -> <<"None">>

\* fault: the message stops before the longitude
MalformedMessage_NoLongitude(lat, lon) ==
    <<"Fields are unexpectedly missing from the response returned by the server. ",
      "Check your latitude and longitude, make sure it is in the United States!\n",
      " Latitude=">> \o Format(lat) \o <<", Longitude=">>

MalformedMessage(lat, lon) ==
    <<"Fields are unexpectedly missing from the response returned by the server. ",
      "Check your latitude and longitude, make sure it is in the United States!\n",
      " Latitude=">> \o Format(lat) \o <<", Longitude=">> \o Format(lon)

-----------------------------------------------------------------------------
(* create_report *)

LocationFields == <<"latitude", "longitude", "elevation", "areaDescription">>

CurrentFields == <<"Temp", "Dewp", "Relh", "Winds", "Windd", "Weather",
                   "Weatherimage", "Visibility", "WindChill", "SLP">>

IntFields == {"Temp", "Dewp", "Relh", "Winds", "Windd", "WindChill"}

FloatFields == {"Visibility", "SLP"}

\* the seven parallel sequences, in the order create_report subscripts them
SeqKeys == <<[blk |-> "time", key |-> "startPeriodName"],
             [blk |-> "time", key |-> "tempLabel"],
             [blk |-> "data", key |-> "temperature"],
             [blk |-> "data", key |-> "pop"],
             [blk |-> "data", key |-> "iconLink"],
             [blk |-> "data", key |-> "weather"],
             [blk |-> "data", key |-> "text"]>>

EmptyLocation ==
    [t |-> "dict", latitude |-> Absent, longitude |-> Absent, elevation |-> Absent,
     areaDescription |-> Absent]

EmptyCurrent ==
    [t |-> "dict", Temp |-> Absent, Dewp |-> Absent, Relh |-> Absent, Winds |-> Absent,
     Windd |-> Absent, Weather |-> Absent, Weatherimage |-> Absent,
     Visibility |-> Absent, WindChill |-> Absent, SLP |-> Absent]

ImageBase == <<"https://forecast.weather.gov/newimages/medium/">>

UnknownLocation == StrVal(<<"Unknown location">>)

High == StrVal(<<"H", "i", "g", "h">>)

\* raw.get(key, {}): the sub-object, or an empty mapping when the key is missing
SubObject(sub, empty) == IF sub.t = "absent" THEN empty ELSE sub

\* d.get(k): None when the key is missing; d must be a mapping
Get(d, k) ==
    IF d.t # "dict" THEN Raise("AttributeError")
    ELSE Ret(IF d[k].t = "absent" THEN Null ELSE d[k])

\* d.get(k, dflt): dflt only when the key is missing
GetOr(d, k, dflt) ==
    IF d.t # "dict" THEN Raise("AttributeError")
    ELSE Ret(IF d[k].t = "absent" THEN dflt ELSE d[k])

ParseIntOf(o) == IF o.exc # "none" THEN o ELSE parse_int(o.v, IntVal(0))

ParseFloatOf(o) == IF o.exc # "none" THEN o ELSE parse_float(o.v, FloatVal(0))

\* fault: the filename alone, without the base path
ImageUrl_NoBase(o) ==
    IF o.exc # "none" THEN o
    ELSE IF o.v.t = "str" THEN Ret(StrVal(o.v.s))
    ELSE Raise("TypeError")

\* "https://.../medium/" + x: str + str, TypeError for any other x
ImageUrl(o) ==
    IF o.exc # "none" THEN o
    ELSE IF o.v.t = "str" THEN Ret(StrVal(ImageBase \o o.v.s))
    ELSE Raise("TypeError")

LocationArg(loc, k) ==
    IF k = "areaDescription" THEN GetOr(loc, k, UnknownLocation)
    ELSE ParseFloatOf(Get(loc, k))

CurrentArg(cur, k) ==
    CASE k \in IntFields    -> ParseIntOf(Get(cur, k))
      [] k \in FloatFields  -> ParseFloatOf(Get(cur, k))
      [] k = "Weather"      -> GetOr(cur, k, StrVal(<<>>))
      [] k = "Weatherimage" -> ImageUrl(GetOr(cur, k, StrVal(<<>>)))

\* raw[blk][key]
Subscript(r, sk) ==
    IF r[sk.blk].t # "dict" THEN "KeyError"
    ELSE IF r[sk.blk][sk.key].t # "list" THEN "KeyError"
    ELSE "none"

Elements(r, sk) == r[sk.blk][sk.key].e

\* fault: the label is trimmed and compared without regard to case
IsHigh_IgnoresCase(label) ==
    BoolVal(label.t = "str" /\ LowerText(Strip(label.s)) = <<"h", "i", "g", "h">>)

IsHigh(label) == BoolVal(label = High)

\* fault: positional fields swapped (temperature/precipitation, status/description)
Forecast_Misordered(when, is_high, temperature, precipitation, url, status, description) ==
    [when |-> when, is_high |-> is_high, temperature |-> precipitation,
     precipitation |-> temperature, url |-> url, status |-> description,
     description |-> status]

Forecast(when, is_high, temperature, precipitation, url, status, description) ==
    [when |-> when, is_high |-> is_high, temperature |-> temperature,
     precipitation |-> precipitation, url |-> url, status |-> status,
     description |-> description]

\* list(map(Forecast, names, highs, map(parse_int, temps), map(parse_int, pops),
\*          icons, statuses, texts)): each round pulls one item from every
\* iterator in turn and stops at the first that is exhausted; the two inner
\* maps convert an item only when it is pulled.
RECURSIVE MapFrom(_, _, _)
MapFrom(q, i, acc) ==
    IF i > Len(q.names) \/ i > Len(q.highs) \/ i > Len(q.temps)
    THEN [exc |-> "none", at |-> "", list |-> acc]
    ELSE IF parse_int(q.temps[i], IntVal(0)).exc # "none"
    THEN [exc |-> parse_int(q.temps[i], IntVal(0)).exc, at |-> "temperature", list |-> acc]
    ELSE IF i > Len(q.pops)
    THEN [exc |-> "none", at |-> "", list |-> acc]
    ELSE IF parse_int(q.pops[i], IntVal(0)).exc # "none"
    THEN [exc |-> parse_int(q.pops[i], IntVal(0)).exc, at |-> "pop", list |-> acc]
    ELSE IF i > Len(q.icons) \/ i > Len(q.statuses) \/ i > Len(q.texts)
    THEN [exc |-> "none", at |-> "", list |-> acc]
    ELSE MapFrom(q, i + 1,
                 Append(acc, Forecast(q.names[i], q.highs[i],
                                      parse_int(q.temps[i], IntVal(0)).v,
                                      parse_int(q.pops[i], IntVal(0)).v,
                                      q.icons[i], q.statuses[i], q.texts[i])))

\* fault: sequences of different lengths are an error (zip(strict=True))
RECURSIVE MapFrom_Strict(_, _, _)
MapFrom_Strict(q, i, acc) ==
    IF i > Len(q.names)
    THEN [exc |-> "none", at |-> "", list |-> acc]
    ELSE IF i > Len(q.highs) \/ i > Len(q.temps) \/ i > Len(q.pops)
            \/ i > Len(q.icons) \/ i > Len(q.statuses) \/ i > Len(q.texts)
    THEN [exc |-> "IndexError", at |-> "forecast", list |-> acc]
    ELSE IF parse_int(q.temps[i], IntVal(0)).exc # "none"
    THEN [exc |-> parse_int(q.temps[i], IntVal(0)).exc, at |-> "temperature", list |-> acc]
    ELSE IF parse_int(q.pops[i], IntVal(0)).exc # "none"
    THEN [exc |-> parse_int(q.pops[i], IntVal(0)).exc, at |-> "pop", list |-> acc]
    ELSE MapFrom_Strict(q, i + 1,
                 Append(acc, Forecast(q.names[i], q.highs[i],
                                      parse_int(q.temps[i], IntVal(0)).v,
                                      parse_int(q.pops[i], IntVal(0)).v,
                                      q.icons[i], q.statuses[i], q.texts[i])))

MapForecast_Strict(q) == MapFrom_Strict(q, 1, <<>>)

\* fault: off by one, the last period is lost
MapForecast_DropsLast(q) ==
    LET m == MapFrom(q, 1, <<>>)
    IN  [m EXCEPT !.list = IF Len(@) > 1 THEN SubSeq(@, 1, Len(@) - 1) ELSE @]

MapForecast(q) == MapFrom(q, 1, <<>>)

ForecastArgs(r) ==
    [names    |-> Elements(r, SeqKeys[1]),
     highs    |-> [i \in 1..Len(Elements(r, SeqKeys[2])) |-> IsHigh(Elements(r, SeqKeys[2])[i])],
     temps    |-> Elements(r, SeqKeys[3]),
     pops     |-> Elements(r, SeqKeys[4]),
     icons    |-> Elements(r, SeqKeys[5]),
     statuses |-> Elements(r, SeqKeys[6]),
     texts    |-> Elements(r, SeqKeys[7])]

\* the argument evaluations of the return expression, in Python's left-to-right
\* order, each with the exception it raises ("none" when it yields a value)
ArgSteps(r) ==
    LET loc == SubObject(r.location, EmptyLocation)
        cur == SubObject(r.currentobservation, EmptyCurrent)
    IN  [i \in 1..4 |-> [at |-> LocationFields[i], exc |-> LocationArg(loc, LocationFields[i]).exc]]
        \o [i \in 1..10 |-> [at |-> CurrentFields[i], exc |-> CurrentArg(cur, CurrentFields[i]).exc]]
        \o [i \in 1..7 |-> [at |-> SeqKeys[i].key, exc |-> Subscript(r, SeqKeys[i])]]

FirstError(steps) ==
    IF \E i \in 1..Len(steps) : steps[i].exc # "none"
    THEN steps[CHOOSE i \in 1..Len(steps) :
                 steps[i].exc # "none" /\ \A j \in 1..(i - 1) : steps[j].exc = "none"]
    ELSE [at |-> "", exc |-> "none"]

Raised(exc, at, msg) == [kind |-> "raise", exc |-> exc, at |-> at, msg |-> msg]

ReportLocation(r) ==
    LET loc == SubObject(r.location, EmptyLocation)
    IN  [latitude  |-> LocationArg(loc, "latitude").v,
         longitude |-> LocationArg(loc, "longitude").v,
         elevation |-> LocationArg(loc, "elevation").v,
         name      |-> LocationArg(loc, "areaDescription").v]

WeatherData(r) ==
    LET cur == SubObject(r.currentobservation, EmptyCurrent)
    IN  [temperature    |-> CurrentArg(cur, "Temp").v,
         dewpoint       |-> CurrentArg(cur, "Dewp").v,
         humidity       |-> CurrentArg(cur, "Relh").v,
         wind_speed     |-> CurrentArg(cur, "Winds").v,
         wind_direction |-> CurrentArg(cur, "Windd").v,
         description    |-> CurrentArg(cur, "Weather").v,
         url            |-> CurrentArg(cur, "Weatherimage").v,
         visibility     |-> CurrentArg(cur, "Visibility").v,
         wind_chill     |-> CurrentArg(cur, "WindChill").v,
         pressure       |-> CurrentArg(cur, "SLP").v]

create_report(r, lat, lon) ==
    IF r.time.t = "absent"
    THEN Raised("ValueError", "time", MalformedMessage(lat, lon))
    ELSE IF FirstError(ArgSteps(r)).exc # "none"
    THEN Raised(FirstError(ArgSteps(r)).exc, FirstError(ArgSteps(r)).at, <<>>)
    ELSE IF MapForecast(ForecastArgs(r)).exc # "none"
    THEN Raised(MapForecast(ForecastArgs(r)).exc, MapForecast(ForecastArgs(r)).at, <<>>)
    ELSE [kind     |-> "report",
          location |-> ReportLocation(r),
          current  |-> WeatherData(r),
          forecast |-> MapForecast(ForecastArgs(r)).list]

-----------------------------------------------------------------------------
(* Payloads: the decoded JSON bodies the server can answer with *)

ListOf(e) == [t |-> "list", e |-> e]

NoList == [t |-> "absent", e |-> <<>>]

TimeBlock(names, labels) ==
    [t |-> "dict", startPeriodName |-> names, tempLabel |-> labels]

DataBlock(temps, pops, icons, statuses, texts) ==
    [t |-> "dict", temperature |-> temps, pop |-> pops, iconLink |-> icons,
     weather |-> statuses, text |-> texts]

NoTime == [t |-> "absent", startPeriodName |-> NoList, tempLabel |-> NoList]

NoData == [t |-> "absent", temperature |-> NoList, pop |-> NoList,
           iconLink |-> NoList, weather |-> NoList, text |-> NoList]

NoLocation == [EmptyLocation EXCEPT !.t = "absent"]

NoCurrent == [EmptyCurrent EXCEPT !.t = "absent"]

Payload(time, location, current, data) ==
    [time |-> time, location |-> location, currentobservation |-> current,
     data |-> data]

\* scalar values a field of the payload can hold
ValueDomain ==
    {Null, BoolVal(TRUE), IntVal(58), IntVal(-3),
     FloatVal(58 * Scale + Scale \div 2), FloatVal(-(2 * Scale + Scale \div 2)),
     InfVal(1), NaN,
     StrVal(<<"5", "8">>), StrVal(<<" ", "5", "8", "\n">>), StrVal(<<"-", "5">>),
     StrVal(<<"1", "_", "0">>), StrVal(<<"5", ".", "5">>), StrVal(<<"N", "/", "A">>),
     StrVal(<<"n", "a", "n">>), StrVal(<<>>), StrVal(<<"n", "b", "k", "n", ".", "p", "n", "g">>),
     ListVal(0), DictVal(1)}

DefaultDomain == {IntVal(0), FloatVal(0), BoolVal(FALSE), IntVal(-1)}

LabelDomain ==
    {High, StrVal(<<"L", "o", "w">>), StrVal(<<"h", "i", "g", "h">>),
     StrVal(<<" ", "H", "i", "g", "h">>), Null}

NEWARK_LATITUDE == FloatVal(396782)

NEWARK_LONGITUDE == FloatVal(-757616)

CoordDomain == {NEWARK_LATITUDE, NEWARK_LONGITUDE, IntVal(40), FloatVal(Scale \div 2)}

BaseLocation ==
    [t |-> "dict",
     latitude        |-> StrVal(<<"3", "9", ".", "6", "8">>),
     longitude       |-> StrVal(<<"-", "7", "5", ".", "7", "6">>),
     elevation       |-> StrVal(<<"9", "5">>),
     areaDescription |-> StrVal(<<"Newark DE">>)]

BaseCurrent ==
    [t |-> "dict",
     Temp         |-> StrVal(<<"5", "8">>),
     Dewp         |-> StrVal(<<"4", "1">>),
     Relh         |-> StrVal(<<"5", "3">>),
     Winds        |-> StrVal(<<"5">>),
     Windd        |-> StrVal(<<"2", "0", "0">>),
     Weather      |-> StrVal(<<"Fair">>),
     Weatherimage |-> StrVal(<<"n", "b", "k", "n", ".", "p", "n", "g">>),
     Visibility   |-> StrVal(<<"1", "0", ".", "0", "0">>),
     WindChill    |-> StrVal(<<"N", "A">>),
     SLP          |-> StrVal(<<"3", "0", ".", "1", "2">>)]

\* element i of a well-formed sequence; distinct across sequences and indices
BaseElem(key, i) ==
    CASE key = "startPeriodName" -> StrVal(<<"period", Digits[i + 1]>>)
      [] key = "tempLabel"       -> IF i % 2 = 1 THEN High ELSE StrVal(<<"L", "o", "w">>)
      [] key = "temperature"     -> StrVal(<<"5", Digits[i + 1]>>)
      [] key = "pop"             -> IF i % 2 = 1 THEN Null ELSE StrVal(<<"2", Digits[i + 1]>>)
      [] key = "iconLink"        -> StrVal(<<"icon", Digits[i + 1]>>)
      [] key = "weather"         -> StrVal(<<"status", Digits[i + 1]>>)
      [] key = "text"            -> StrVal(<<"text", Digits[i + 1]>>)

BaseSeq(key, n) == ListOf([i \in 1..n |-> BaseElem(key, i)])

BaseTime == TimeBlock(BaseSeq("startPeriodName", MaxLen), BaseSeq("tempLabel", MaxLen))

BaseData ==
    DataBlock(BaseSeq("temperature", MaxLen), BaseSeq("pop", MaxLen),
              BaseSeq("iconLink", MaxLen), BaseSeq("weather", MaxLen),
              BaseSeq("text", MaxLen))

BasePayload == Payload(BaseTime, BaseLocation, BaseCurrent, BaseData)

EmptyPayload == Payload(NoTime, NoLocation, NoCurrent, NoData)

\* top-level shape: blocks or sequences missing
ShapePayloads ==
    {EmptyPayload,
     Payload(NoTime, BaseLocation, BaseCurrent, BaseData),
     Payload(NoTime, NoLocation, NoCurrent, BaseData),
     Payload(BaseTime, BaseLocation, BaseCurrent, NoData),
     Payload(BaseTime, NoLocation, NoCurrent, NoData)}
    \cup {Payload([BaseTime EXCEPT ![k] = NoList], BaseLocation, BaseCurrent, BaseData) :
            k \in {"startPeriodName", "tempLabel"}}
    \cup {Payload(BaseTime, BaseLocation, BaseCurrent, [BaseData EXCEPT ![k] = NoList]) :
            k \in {"temperature", "pop", "iconLink", "weather", "text"}}

\* one field of location or currentobservation missing or holding any value;
\* the sub-object itself missing, empty or null
FieldPayloads ==
    {Payload(BaseTime, [BaseLocation EXCEPT ![LocationFields[i]] = v], BaseCurrent, BaseData) :
        i \in 1..4, v \in ValueDomain \cup {Absent}}
    \cup {Payload(BaseTime, BaseLocation, [BaseCurrent EXCEPT ![CurrentFields[i]] = v], BaseData) :
        i \in 1..10, v \in ValueDomain \cup {Absent}}
    \cup {Payload(BaseTime, loc, cur, BaseData) :
        loc \in {NoLocation, EmptyLocation, [EmptyLocation EXCEPT !.t = "null"], BaseLocation},
        cur \in {NoCurrent, EmptyCurrent, [EmptyCurrent EXCEPT !.t = "null"], BaseCurrent}}

\* the seven sequences of any lengths, well-formed elements
LengthPayloads ==
    {Payload(TimeBlock(BaseSeq("startPeriodName", n1), BaseSeq("tempLabel", n2)),
             BaseLocation, BaseCurrent,
             DataBlock(BaseSeq("temperature", n3), BaseSeq("pop", n4),
                       BaseSeq("iconLink", n5), BaseSeq("weather", n6),
                       BaseSeq("text", n7))) :
        n1 \in 0..MaxLen, n2 \in 0..MaxLen, n3 \in 0..MaxLen, n4 \in 0..MaxLen,
        n5 \in 0..MaxLen, n6 \in 0..MaxLen, n7 \in 0..MaxLen}

\* lengths that differ, with a non-scalar as the last temperature or pop
SurplusPayloads ==
    {Payload(TimeBlock(BaseSeq("startPeriodName", n1), BaseSeq("tempLabel", MaxLen)),
             BaseLocation, BaseCurrent,
             DataBlock(IF k = "temperature"
                       THEN ListOf([BaseSeq(k, n3).e EXCEPT ![n3] = ListVal(0)])
                       ELSE BaseSeq("temperature", n3),
                       IF k = "pop"
                       THEN ListOf([BaseSeq(k, MaxLen).e EXCEPT ![MaxLen] = DictVal(1)])
                       ELSE BaseSeq("pop", MaxLen),
                       BaseSeq("iconLink", MaxLen), BaseSeq("weather", MaxLen),
                       BaseSeq("text", n7))) :
        n1 \in 0..MaxLen, n3 \in 1..MaxLen, n7 \in 0..MaxLen, k \in {"temperature", "pop"}}

\* values an element of data.temperature / data.pop can hold
ElementDomain ==
    {Null, IntVal(58), FloatVal(58 * Scale + Scale \div 2), InfVal(1),
     StrVal(<<"5", "8">>), StrVal(<<"N", "/", "A">>), ListVal(0)}

\* equal lengths, any labels / temperatures / precipitation values
ElementPayloads ==
    UNION {
        {Payload(TimeBlock(BaseSeq("startPeriodName", n), ListOf(e)),
                 BaseLocation, BaseCurrent,
                 DataBlock(BaseSeq("temperature", n), BaseSeq("pop", n),
                           BaseSeq("iconLink", n), BaseSeq("weather", n),
                           BaseSeq("text", n))) : e \in [1..n -> LabelDomain]}
        \cup
        {Payload(TimeBlock(BaseSeq("startPeriodName", n), BaseSeq("tempLabel", n)),
                 BaseLocation, BaseCurrent,
                 DataBlock(IF k = "temperature" THEN ListOf(e) ELSE BaseSeq("temperature", n),
                           IF k = "pop" THEN ListOf(e) ELSE BaseSeq("pop", n),
                           BaseSeq("iconLink", n), BaseSeq("weather", n),
                           BaseSeq("text", n))) :
            e \in [1..n -> ElementDomain], k \in {"temperature", "pop"}}
        : n \in 0..MaxLen}

-----------------------------------------------------------------------------
(* State *)

NoOut == [fn |-> "none", exc |-> "none", v |-> Null]

NoResult == [kind |-> "none"]

NoResponse == [kind |-> "none", body |-> 0, from_cache |-> FALSE]

\* create_report called directly on a payload.  The coordinates are read only
\* on the missing-time path, so they range over CoordDomain for the payloads
\* that vary the top-level shape and are NEWARK_* for the rest.  A time or
\* data block, when present, is a mapping and its sequences are lists.
Init ==
    /\ \/ /\ raw \in ShapePayloads
          /\ latitude \in CoordDomain
          /\ longitude \in CoordDomain
       \/ /\ raw \in FieldPayloads \cup LengthPayloads \cup SurplusPayloads
                    \cup ElementPayloads
          /\ latitude = NEWARK_LATITUDE
          /\ longitude = NEWARK_LONGITUDE
    /\ result = NoResult
    /\ value = Null /\ default = IntVal(0) /\ out = NoOut
    /\ pc = "direct" /\ cache = <<>> /\ response = NoResponse
    /\ calls = 0 /\ getCount = 0 /\ createCount = 0

CreateReport ==
    /\ pc = "direct"
    /\ result.kind = "none"
    /\ result' = create_report(raw, latitude, longitude)
    /\ UNCHANGED <<value, default, out, raw, latitude, longitude, pc, cache,
                   response, calls, getCount, createCount>>

Next == CreateReport

Spec == Init /\ [][Next]_vars

-----------------------------------------------------------------------------
(* The coercers called directly *)

WithCurrent(k, v) ==
    Payload(BaseTime, BaseLocation, [BaseCurrent EXCEPT ![k] = v], BaseData)

InitCoerce ==
    /\ value \in ValueDomain
    /\ default \in DefaultDomain
    /\ out = NoOut
    /\ raw \in {WithCurrent("Temp", value), WithCurrent("Visibility", value),
                WithCurrent("Temp", Absent)}
    /\ latitude = NEWARK_LATITUDE /\ longitude = NEWARK_LONGITUDE
    /\ result = NoResult
    /\ pc = "direct" /\ cache = <<>> /\ response = NoResponse
    /\ calls = 0 /\ getCount = 0 /\ createCount = 0

Called(fn, o) == [fn |-> fn, exc |-> o.exc, v |-> o.v]

ParseInt ==
    /\ out = NoOut
    /\ out' = Called("parse_int", parse_int(value, default))
    /\ UNCHANGED <<value, default, raw, latitude, longitude, result, pc, cache,
                   response, calls, getCount, createCount>>

ParseFloat ==
    /\ out = NoOut
    /\ out' = Called("parse_float", parse_float(value, default))
    /\ UNCHANGED <<value, default, raw, latitude, longitude, result, pc, cache,
                   response, calls, getCount, createCount>>

ParseBoolean ==
    /\ out = NoOut
    /\ out' = Called("parse_boolean", parse_boolean(value, default))
    /\ UNCHANGED <<value, default, raw, latitude, longitude, result, pc, cache,
                   response, calls, getCount, createCount>>

NextCoerce == ParseInt \/ ParseFloat \/ ParseBoolean \/ CreateReport

SpecCoerce == InitCoerce /\ [][NextCoerce]_vars

-----------------------------------------------------------------------------
(* get_weather: requests.get, r.json(), create_report *)

\* bodies the endpoint answers with; json = FALSE is a body that is not JSON
GetBodies ==
    <<[json |-> TRUE, payload |-> BasePayload],
      [json |-> TRUE, payload |-> EmptyPayload],
      [json |-> TRUE, payload |-> WithCurrent("Temp", Null)],
      [json |-> TRUE, payload |-> WithCurrent("Weatherimage", Null)],
      [json |-> FALSE, payload |-> EmptyPayload]>>

\* coordinates get_weather is called with; each is one request URL
GetCoords ==
    <<[lat |-> NEWARK_LATITUDE, lon |-> NEWARK_LONGITUDE],
      [lat |-> IntVal(40), lon |-> FloatVal(Scale \div 2)]>>

Url == CHOOSE c \in 1..Len(GetCoords) :
          GetCoords[c].lat = latitude /\ GetCoords[c].lon = longitude

\* requests_cache.install_cache succeeded and holds a response for the URL
CacheHit == cache.installed /\ cache.store[Url] # 0

InitGet ==
    /\ pc = "idle"
    /\ cache \in {[installed |-> i, store |-> [c \in 1..Len(GetCoords) |-> 0]] : i \in BOOLEAN}
    /\ response = NoResponse
    /\ raw = EmptyPayload
    /\ latitude = GetCoords[1].lat /\ longitude = GetCoords[1].lon
    /\ result = NoResult
    /\ calls = 0 /\ getCount = 0 /\ createCount = 0
    /\ value = Null /\ default = IntVal(0) /\ out = NoOut

Call ==
    /\ pc = "idle"
    /\ calls < MaxCalls
    /\ \E c \in 1..Len(GetCoords) :
          /\ latitude' = GetCoords[c].lat
          /\ longitude' = GetCoords[c].lon
    /\ pc' = "get"
    /\ calls' = calls + 1
    /\ getCount' = 0 /\ createCount' = 0
    /\ response' = NoResponse /\ raw' = EmptyPayload /\ result' = NoResult
    /\ UNCHANGED <<value, default, out, cache>>

GetFromCache ==
    /\ pc = "get"
    /\ CacheHit
    /\ response' = [kind |-> "response", body |-> cache.store[Url], from_cache |-> TRUE]
    /\ getCount' = getCount + 1
    /\ pc' = "json"
    /\ UNCHANGED <<value, default, out, raw, latitude, longitude, result, cache,
                   calls, createCount>>

GetFromNetwork ==
    /\ pc = "get"
    /\ ~CacheHit
    /\ \E b \in 1..Len(GetBodies) :
          /\ response' = [kind |-> "response", body |-> b, from_cache |-> FALSE]
          /\ cache' = IF cache.installed
                      THEN [cache EXCEPT !.store[Url] = b]
                      ELSE cache
    /\ getCount' = getCount + 1
    /\ pc' = "json"
    /\ UNCHANGED <<value, default, out, raw, latitude, longitude, result, calls,
                   createCount>>

\* fault: the transport error is caught and a report is built from {}
GetTransportError_Swallowed ==
    /\ pc = "get"
    /\ ~CacheHit
    /\ getCount' = getCount + 1
    /\ raw' = EmptyPayload
    /\ pc' = "build"
    /\ UNCHANGED <<value, default, out, latitude, longitude, result, cache,
                   response, calls, createCount>>

\* requests.get raises (connection failure, timeout); get_weather has no handler
GetTransportError ==
    /\ pc = "get"
    /\ ~CacheHit
    /\ getCount' = getCount + 1
    /\ result' = Raised("ConnectionError", "requests.get", <<>>)
    /\ pc' = "raised"
    /\ UNCHANGED <<value, default, out, raw, latitude, longitude, cache, response,
                   calls, createCount>>

DecodeJson ==
    /\ pc = "json"
    /\ IF GetBodies[response.body].json
       THEN /\ raw' = GetBodies[response.body].payload
            /\ pc' = "build"
            /\ UNCHANGED result
       ELSE /\ result' = Raised("JSONDecodeError", "r.json", <<>>)
            /\ pc' = "raised"
            /\ UNCHANGED raw
    /\ UNCHANGED <<value, default, out, latitude, longitude, cache, response,
                   calls, getCount, createCount>>

BuildReport ==
    /\ pc = "build"
    /\ result' = create_report(raw, latitude, longitude)
    /\ createCount' = createCount + 1
    /\ pc' = IF create_report(raw, latitude, longitude).kind = "report"
             THEN "returned" ELSE "raised"
    /\ UNCHANGED <<value, default, out, raw, latitude, longitude, cache, response,
                   calls, getCount>>

\* control is back with the caller, which may call again
Finish ==
    /\ pc \in {"returned", "raised"}
    /\ pc' = "idle"
    /\ UNCHANGED <<value, default, out, raw, latitude, longitude, result, cache,
                   response, calls, getCount, createCount>>

NextGet ==
    \/ Call
    \/ GetFromCache
    \/ GetFromNetwork
    \/ GetTransportError
    \/ DecodeJson
    \/ BuildReport
    \/ Finish

SpecGet == InitGet /\ [][NextGet]_vars

-----------------------------------------------------------------------------
(* Properties *)

Contains(s, sub) ==
    \E i \in 1..(Len(s) - Len(sub) + 1) : SubSeq(s, i, i + Len(sub) - 1) = sub

SeqLen(r, i) == Len(Elements(r, SeqKeys[i]))

AllSeqsPresent(r) ==
    /\ r.time.t = "dict"
    /\ r.data.t = "dict"
    /\ \A i \in 1..7 : r[SeqKeys[i].blk][SeqKeys[i].key].t = "list"

EqualLengths(r) ==
    /\ AllSeqsPresent(r)
    /\ \A i \in 1..7 : SeqLen(r, i) = SeqLen(r, 1)

Shortest(r) == CHOOSE n \in {SeqLen(r, i) : i \in 1..7} : \A i \in 1..7 : n <= SeqLen(r, i)

\* forecast entry i is made of element i of each of the seven sequences
Pointwise(r, f, i) ==
    /\ f.when = r.time.startPeriodName.e[i]
    /\ f.temperature = parse_int(r.data.temperature.e[i], IntVal(0)).v
    /\ f.precipitation = parse_int(r.data.pop.e[i], IntVal(0)).v
    /\ f.url = r.data.iconLink.e[i]
    /\ f.status = r.data.weather.e[i]
    /\ f.description = r.data.text.e[i]

\* a JSON scalar: null, text or a finite number
IsScalar(v) == v.t \in {"null", "str", "int", "bool", "float"}

\* C1: a payload without the top-level 'time' key never yields a report:
\* create_report fails with the ValueError whose message contains the
\* latitude and the longitude it was called with.
C1_MissingTimeRaises ==
    (result.kind # "none" /\ raw.time.t = "absent") =>
        /\ result.kind = "raise"
        /\ result.exc = "ValueError"
        /\ Contains(result.msg, <<" Latitude=">> \o Format(latitude))
        /\ Contains(result.msg, <<", Longitude=">> \o Format(longitude))

C1_Witness ==
    /\ raw = EmptyPayload
    /\ result.kind # "none"
    /\ result.kind = "raise"
    /\ latitude = NEWARK_LATITUDE
    /\ longitude = IntVal(40)
    /\ Contains(result.msg, <<"3", "9", ".", "6", "7", "8", "2">>)
    /\ Contains(result.msg, <<"4", "0">>)

\* C2: for a payload whose seven sequences have one common length, the
\* forecast of the report returned has as many entries as startPeriodName.
C2_ForecastLength ==
    (result.kind # "none" /\ result.kind = "report" /\ EqualLengths(raw)) =>
        Len(result.forecast) = Len(raw.time.startPeriodName.e)

C2_Witness ==
    /\ result.kind # "none"
    /\ result.kind = "report"
    /\ EqualLengths(raw)
    /\ Len(raw.time.startPeriodName.e) = MaxLen
    /\ Len(result.forecast) = MaxLen

\* C3: no call of parse_int, parse_float or parse_boolean raises; a failed
\* conversion returns the default.
C3_CoercersTotal ==
    out.fn # "none" => out.exc = "none"

\* C4: a payload with the time block and a data block of equal-length
\* sequences always yields a report, whatever values the fields of location
\* and currentobservation and the temperature / pop elements hold, and a
\* null or missing field takes its default.
C4_FieldDefectsDefaulted ==
    (/\ result.kind # "none"
     /\ EqualLengths(raw)
     /\ raw.location.t \in {"dict", "absent"}
     /\ raw.currentobservation.t \in {"dict", "absent"}) =>
        /\ result.kind = "report"
        /\ raw.location.areaDescription.t \in {"absent", "null"} =>
              result.location.name = StrVal(<<"Unknown location">>)
        /\ raw.currentobservation.Weather.t \in {"absent", "null"} =>
              result.current.description = StrVal(<<>>)

\* C5: forecast[i].is_high is true exactly when tempLabel[i] is the text
\* 'High', letter for letter; every other label, null included, gives false.
C5_IsHighExact ==
    (result.kind # "none" /\ result.kind = "report") =>
        \A i \in 1..Len(result.forecast) :
            /\ result.forecast[i].is_high \in {BoolVal(TRUE), BoolVal(FALSE)}
            /\ result.forecast[i].is_high = BoolVal(TRUE) <=>
                   /\ raw.time.tempLabel.e[i].t = "str"
                   /\ raw.time.tempLabel.e[i].s = <<"H", "i", "g", "h">>

C5_Witness ==
    /\ result.kind # "none"
    /\ result.kind = "report"
    /\ Len(result.forecast) >= 2
    /\ raw.time.tempLabel.e[1] = StrVal(<<" ", "H", "i", "g", "h">>)
    /\ result.forecast[1].is_high = BoolVal(FALSE)
    /\ raw.time.tempLabel.e[2] = StrVal(<<"H", "i", "g", "h">>)
    /\ result.forecast[2].is_high = BoolVal(TRUE)

\* the Weatherimage text that create_report appends, "" when there is none
ImageFile(r) ==
    IF r.currentobservation.t = "absent" \/ r.currentobservation.Weatherimage.t = "absent"
    THEN <<>>
    ELSE r.currentobservation.Weatherimage.s

\* C6: the image URL of a report is the fixed base followed by the
\* Weatherimage filename, and is the base alone when Weatherimage is missing
\* or empty or currentobservation is missing; a missing or text Weatherimage
\* never makes create_report fail.
C6_ImageUrl ==
    /\ (result.kind # "none" /\ result.kind = "report") =>
          result.current.url =
              StrVal(<<"https://forecast.weather.gov/newimages/medium/">> \o ImageFile(raw))
    /\ (result.kind # "none" /\ result.kind = "raise" /\ result.at = "Weatherimage") =>
          /\ raw.currentobservation.t = "dict"
          /\ raw.currentobservation.Weatherimage.t \notin {"absent", "str"}
    /\ (/\ result.kind # "none"
        /\ raw.currentobservation.t = "dict"
        /\ raw.currentobservation.Weatherimage.t \in {"absent", "str"}
        /\ [raw EXCEPT !.currentobservation.Weatherimage = BaseCurrent.Weatherimage] = BasePayload)
          => result.kind = "report"
    /\ (/\ result.kind # "none"
        /\ raw.currentobservation.t = "absent"
        /\ [raw EXCEPT !.currentobservation = BaseCurrent] = BasePayload)
          => result.kind = "report"

C6_Witness ==
    /\ result.kind # "none"
    /\ result.kind = "report"
    /\ raw.currentobservation.t = "dict"
    /\ raw.currentobservation.Weatherimage = Absent
    /\ result.current.url = StrVal(<<"https://forecast.weather.gov/newimages/medium/">>)

\* texts of ValueDomain that denote an integer, with the integer
IntTexts ==
    {<<StrVal(<<"5", "8">>), 58>>, <<StrVal(<<" ", "5", "8", "\n">>), 58>>,
     <<StrVal(<<"-", "5">>), -5>>, <<StrVal(<<"1", "_", "0">>), 10>>}

\* texts of ValueDomain that denote no number at all
NonNumericTexts ==
    {StrVal(<<"N", "/", "A">>), StrVal(<<>>),
     StrVal(<<"n", "b", "k", "n", ".", "p", "n", "g">>)}

\* C7: parse_int and parse_float return the default for null, the number for
\* a text or number that denotes one ('58' gives 58), the default for a text
\* that denotes none ('N/A'); a null or missing current-conditions number is
\* 0 in the report.
C7_CoercerContract ==
    /\ (out.fn \in {"parse_int", "parse_float"} /\ value = Null) =>
          (out.exc = "none" /\ out.v = default)
    /\ (out.fn \in {"parse_int", "parse_float"} /\ value \in NonNumericTexts) =>
          (out.exc = "none" /\ out.v = default)
    /\ out.fn = "parse_int" =>
          /\ \A p \in IntTexts : value = p[1] => out = Called("parse_int", Ret(IntVal(p[2])))
          /\ value.t = "int" => (out.exc = "none" /\ out.v = value)
          /\ value = StrVal(<<"5", ".", "5">>) => (out.exc = "none" /\ out.v = default)
    /\ out.fn = "parse_float" =>
          /\ \A p \in IntTexts :
                value = p[1] => out = Called("parse_float", Ret(FloatVal(p[2] * Scale)))
          /\ value = StrVal(<<"5", ".", "5">>) =>
                out = Called("parse_float", Ret(FloatVal(5 * Scale + Scale \div 2)))
          /\ value.t = "int" => (out.exc = "none" /\ out.v = FloatVal(value.n * Scale))
          /\ value.t = "float" => (out.exc = "none" /\ out.v = value)
    /\ (result.kind # "none" /\ raw.currentobservation.Temp \in {Null, Absent}) =>
          (result.kind = "report" /\ result.current.temperature = IntVal(0))
    /\ (result.kind # "none" /\ raw.currentobservation.Temp = StrVal(<<"5", "8">>)
          /\ raw.currentobservation.Visibility = Null) =>
          /\ result.kind = "report"
          /\ result.current.temperature = IntVal(58)
          /\ result.current.visibility = FloatVal(0)

C7_Witness ==
    /\ out.fn = "parse_int"
    /\ value = Null
    /\ default = IntVal(-1)
    /\ out.v = IntVal(-1)
    /\ result.kind # "none"
    /\ raw.currentobservation.Temp = Null
    /\ result.kind = "report"
    /\ result.current.temperature = IntVal(0)

\* C8: a call of get_weather makes exactly one requests.get and only then
\* builds the report from that response; a transport error of the GET is the
\* call's outcome, with no report built; the outcome is create_report of the
\* response body whether the response came from the cache or the network.
C8_GetThenBuild ==
    /\ createCount <= getCount
    /\ getCount <= 1
    /\ pc \in {"json", "build", "returned", "raised"} => getCount = 1
    /\ pc \in {"get", "json", "build"} => createCount = 0
    /\ pc = "returned" => (createCount = 1 /\ result.kind = "report")
    /\ (pc = "raised" /\ response.kind = "none") =>
          /\ result = Raised("ConnectionError", "requests.get", <<>>)
          /\ createCount = 0
    /\ (pc \in {"returned", "raised"} /\ response.kind = "response"
          /\ GetBodies[response.body].json) =>
          /\ createCount = 1
          /\ result = create_report(GetBodies[response.body].payload, latitude, longitude)

C8_Witness ==
    /\ pc = "returned"
    /\ calls = 2
    /\ response.kind = "response"
    /\ response.from_cache
    /\ getCount = 1
    /\ createCount = 1
    /\ result.kind = "report"

\* C9: with sequences of one common length n, forecast entry i (for every i
\* up to n) is made of element i of each sequence, in the server's order.
C9_PointwiseZip ==
    (result.kind # "none" /\ result.kind = "report" /\ EqualLengths(raw)) =>
        /\ DOMAIN result.forecast = 1..Len(raw.time.startPeriodName.e)
        /\ \A i \in DOMAIN result.forecast : Pointwise(raw, result.forecast[i], i)

C9_Witness ==
    /\ result.kind # "none"
    /\ result.kind = "report"
    /\ EqualLengths(raw)
    /\ Len(result.forecast) >= 2
    /\ result.forecast[1].when # result.forecast[2].when
    /\ result.forecast[2].temperature = IntVal(58)
    /\ result.forecast[2].precipitation = IntVal(22)
    /\ result.forecast[2].status # result.forecast[2].description

====
